---- MODULE Spec2Model ----
(***************************************************************************)
(* A model of src/MoronRelationExpression.js: the relation expression      *)
(* parser (MoronRelationExpressionParser) and the queries of the parsed    *)
(* expression (isRecursive, isAllRecursive, relation, isSubExpression).    *)
(*                                                                         *)
(* A JavaScript string is a sequence of one-character strings.  Nodes live *)
(* in a heap (a sequence of records, a node's identity being its index),   *)
(* so that an array shared by two expressions is the same node ids in      *)
(* both.  An Expression is a record holding the ids of its root nodes.     *)
(***************************************************************************)
EXTENDS Integers, Sequences, FiniteSets, TLC

VARIABLES
  origin,  \* what the caller built the input from (a raw string, a forest, an array form)
  input,   \* the value given to parse
  arg,     \* the string the caller gives to isSubExpression
  pc,      \* "start", then "parsed" (parse returned) or "failed" (parse threw)
  heap,    \* the nodes parse created
  expr,    \* the Expression parse returned
  cur,     \* the Expression the caller holds: expr, then the results of relation()
  path,    \* the names given to the successive relation() calls
  last     \* the last query: its receiver, arguments and result

vars == <<origin, input, arg, pc, heap, expr, cur, path, last>>

(***************************************************************************)
(* Bounds of the model.                                                    *)
(***************************************************************************)
\* longest input of the specification that enumerates raw strings
MaxLen == 6
\* most nodes of a forest that is rendered to an input string
MaxNodes == 3
\* most nodes of the receiver and of the argument of isSubExpression(string)
MaxThisNodes == 2
MaxOtherNodes == 3
\* most plain tokens before an array token, and most nodes inside an array token
MaxChain == 1
MaxArrayNodes == 4
\* most successive relation() calls of one caller
MaxCalls == 2

(***************************************************************************)
(* Strings.                                                                *)
(***************************************************************************)
\* String.prototype.trim, the only whitespace of the model being " "
RECURSIVE TrimLeft(_)
TrimLeft(s) ==
  IF Len(s) > 0 /\ s[1] = " " THEN TrimLeft(Tail(s)) ELSE s

RECURSIVE TrimRight(_)
TrimRight(s) ==
  IF Len(s) > 0 /\ s[Len(s)] = " " THEN TrimRight(SubSeq(s, 1, Len(s) - 1)) ELSE s

Trim(s) == TrimRight(TrimLeft(s))

\* str.substring(from, to) with 0-based indices, from <= to <= length
Substring(s, from, to) == SubSeq(s, from + 1, to)

\* str.charAt(i), 0-based
CharAt(s, i) == s[i + 1]

isArrayToken(token) ==
  /\ Len(token) >= 2
  /\ CharAt(token, 0) = "["
  /\ CharAt(token, Len(token) - 1) = "]"

stripArrayChars(token) == Substring(token, 1, Len(token) - 1)

(***************************************************************************)
(* _forEachToken: the scan of the loop, from index i on.  The result holds *)
(* the tokens handed to the callback, in order, and the bracket depth at   *)
(* the end of the loop.                                                    *)
(***************************************************************************)
RECURSIVE ScanFrom(_, _, _, _, _, _)
ScanFrom(str, separator, i, bracketDepth, previousMatchIndex, tokens) ==
  IF i > Len(str)
  THEN [tokens |-> tokens, bracketDepth |-> bracketDepth]
  ELSE LET c == IF i = Len(str) THEN separator ELSE CharAt(str, i)
       IN  IF c = "["
           THEN ScanFrom(str, separator, i + 1, bracketDepth + 1,
                         previousMatchIndex, tokens)
           ELSE IF c = "]"
           THEN ScanFrom(str, separator, i + 1, bracketDepth - 1,
                         previousMatchIndex, tokens)
           ELSE IF c = separator /\ bracketDepth = 0
           THEN ScanFrom(str, separator, i + 1, bracketDepth, i,
                         Append(tokens, Trim(Substring(str, previousMatchIndex + 1, i))))
           ELSE ScanFrom(str, separator, i + 1, bracketDepth,
                         previousMatchIndex, tokens)

ForEachToken(str, separator) == ScanFrom(str, separator, 0, 0, -1, <<>>)

(***************************************************************************)
(* The parser.  A parse state is [ok, heap, roots, nodes]: ok is FALSE     *)
(* once _throwInvalidExpressionError was called; roots are the ids pushed  *)
(* to the rootNodes array of this _parse call; nodes names the array the   *)
(* variable `nodes` refers to: 0 for rootNodes, a node id for that node's  *)
(* children array.                                                         *)
(***************************************************************************)
NewNode(name) == [name |-> name, children |-> <<>>]

\* nodes.push(id)
Push(st, id) ==
  IF st.nodes = 0
  THEN [st EXCEPT !.roots = Append(@, id)]
  ELSE [st EXCEPT !.heap[st.nodes].children = Append(@, id)]

\* A variant of PushAll whose loop stops one element early (i < l - 1).
RECURSIVE PushAllButLast(_, _, _)
PushAllButLast(st, rel, i) ==
  IF i > Len(rel) - 1 THEN st ELSE PushAllButLast(Push(st, rel[i]), rel, i + 1)

RECURSIVE PushAll(_, _, _)
PushAll(st, rel, i) ==
  IF i > Len(rel) THEN st ELSE PushAll(Push(st, rel[i]), rel, i + 1)

Throw(st) == [st EXCEPT !.ok = FALSE]

\* A variant of ParseToken that skips an empty token instead of throwing.
ParseTokenSkipEmpty(token, st) ==
  IF Len(token) = 0
  THEN st
  ELSE LET id == Len(st.heap) + 1
       IN  [Push([st EXCEPT !.heap = Append(@, NewNode(token))], id)
              EXCEPT !.nodes = id]

ParseToken(token, st) ==
  IF Len(token) = 0
  THEN Throw(st)
  ELSE LET id == Len(st.heap) + 1
       IN  [Push([st EXCEPT !.heap = Append(@, NewNode(token))], id)
              EXCEPT !.nodes = id]

RECURSIVE ParseStr(_, _)
RECURSIVE ParseArrayToken(_, _)

ParseArrayIterator(token, st) ==
  LET rel == ParseStr(token, st.heap)
  IN  IF rel.ok
      THEN PushAll([st EXCEPT !.heap = rel.heap], rel.roots, 1)
      ELSE Throw(st)

RECURSIVE ArrayTokens(_, _, _)
ArrayTokens(tokens, i, st) ==
  IF i > Len(tokens) \/ ~st.ok
  THEN st
  ELSE ArrayTokens(tokens, i + 1, ParseArrayIterator(tokens[i], st))

ParseArrayToken(arrayToken, st) ==
  LET scan == ForEachToken(stripArrayChars(arrayToken), ",")
      done == ArrayTokens(scan.tokens, 1, st)
  IN  IF done.ok /\ scan.bracketDepth # 0 THEN Throw(done) ELSE done

ParseIterator(token, st) ==
  IF isArrayToken(token) THEN ParseArrayToken(token, st) ELSE ParseToken(token, st)

RECURSIVE ChainTokens(_, _, _)
ChainTokens(tokens, i, st) ==
  IF i > Len(tokens) \/ ~st.ok
  THEN st
  ELSE ChainTokens(tokens, i + 1, ParseIterator(tokens[i], st))

\* _parse(str), allocating in heap h: [ok, heap, roots]
ParseStr(str, h) ==
  LET scan == ForEachToken(str, ".")
      done == ChainTokens(scan.tokens, 1,
                          [ok |-> TRUE, heap |-> h, roots |-> <<>>, nodes |-> 0])
  IN  [ok    |-> done.ok /\ scan.bracketDepth = 0,
       heap  |-> done.heap,
       roots |-> done.roots]

(***************************************************************************)
(* Expressions.  null is the JavaScript null; every other value is an      *)
(* Expression object with its nodes array.                                 *)
(***************************************************************************)
Expression(nodes) == [null |-> FALSE, nodes |-> nodes]

Null == [null |-> TRUE, nodes |-> <<>>]

\* An input is a JavaScript value: a string, or a value that is no string
Str(s) == [isString |-> TRUE, chars |-> s]

NotAString == [isString |-> FALSE, chars |-> <<>>]

\* parse(str): [ok, heap, expr]
Parse(in, h) ==
  IF ~in.isString \/ Len(in.chars) = 0
  THEN [ok |-> TRUE, heap |-> h, expr |-> Expression(<<>>)]
  ELSE LET r == ParseStr(in.chars, h)
       IN  [ok |-> r.ok, heap |-> r.heap,
            expr |-> IF r.ok THEN Expression(r.roots) ELSE Null]

(***************************************************************************)
(* The queries of MoronRelationExpression.  h is the heap holding the      *)
(* nodes of the expression e.                                              *)
(***************************************************************************)
Caret == <<"^">>

Star == <<"*">>

RECURSIVE IsRecursiveFrom(_, _, _, _)
IsRecursiveFrom(h, e, relationName, i) ==
  IF i > Len(e.nodes)
  THEN FALSE
  ELSE LET node == h[e.nodes[i]]
       IN  IF node.name = relationName
           THEN Len(node.children) = 1 /\ h[node.children[1]].name = Caret
           ELSE IsRecursiveFrom(h, e, relationName, i + 1)

\* A variant of isRecursive that tests children.length >= 1 for === 1.
RECURSIVE IsRecursiveLooseFrom(_, _, _, _)
IsRecursiveLooseFrom(h, e, relationName, i) ==
  IF i > Len(e.nodes)
  THEN FALSE
  ELSE LET node == h[e.nodes[i]]
       IN  IF node.name = relationName
           THEN Len(node.children) >= 1 /\ h[node.children[1]].name = Caret
           ELSE IsRecursiveLooseFrom(h, e, relationName, i + 1)

IsRecursiveLoose(h, e, relationName) == IsRecursiveLooseFrom(h, e, relationName, 1)

IsRecursive(h, e, relationName) == IsRecursiveFrom(h, e, relationName, 1)

IsAllRecursive(h, e) ==
  Len(e.nodes) = 1 /\ h[e.nodes[1]].name = Star

\* A variant of the loop of relation without the branch of a recursive node.
RECURSIVE RelationFromNoRecursion(_, _, _, _)
RelationFromNoRecursion(h, e, relationName, i) ==
  IF i > Len(e.nodes)
  THEN Null
  ELSE LET node == h[e.nodes[i]]
       IN  IF node.name # relationName
           THEN RelationFromNoRecursion(h, e, relationName, i + 1)
           ELSE Expression(node.children)

RECURSIVE RelationFrom(_, _, _, _)
RelationFrom(h, e, relationName, i) ==
  IF i > Len(e.nodes)
  THEN Null
  ELSE LET node == h[e.nodes[i]]
       IN  IF node.name # relationName
           THEN RelationFrom(h, e, relationName, i + 1)
           ELSE IF IsRecursive(h, e, node.name)
           THEN Expression(<<e.nodes[i]>>)
           ELSE Expression(node.children)

\* A variant of relation that returns an empty Expression for null.
RelationNeverNull(h, e, relationName) ==
  IF IsAllRecursive(h, e)
  THEN e
  ELSE LET r == RelationFrom(h, e, relationName, 1)
       IN  IF r.null THEN Expression(<<>>) ELSE r

Relation(h, e, relationName) ==
  IF IsAllRecursive(h, e) THEN e ELSE RelationFrom(h, e, relationName, 1)

(***************************************************************************)
(* isSubExpression, its argument already an Expression (of heap ho).  The  *)
(* result is [ret, stop]: the value returned, and the index (from 1) of    *)
(* the root of expr at which the loop returned; stop is 0 when the call    *)
(* returned before the loop or after its last iteration.                   *)
(***************************************************************************)
RECURSIVE IsSubExpression(_, _, _, _)
RECURSIVE IsSubExpressionFrom(_, _, _, _, _)

\* A variant of the loop that goes on to the next root (continue) where the
\* code returns true for a relation recursive in both expressions.
RECURSIVE IsSubExpressionFromContinue(_, _, _, _, _)
IsSubExpressionFromContinue(h, this, ho, other, i) ==
  IF i > Len(other.nodes)
  THEN [ret |-> TRUE, stop |-> 0]
  ELSE LET relationName == ho[other.nodes[i]].name
       IN  IF /\ IsRecursive(ho, other, relationName)
              /\ (IsAllRecursive(h, this) \/ IsRecursive(h, this, relationName))
           THEN IsSubExpressionFromContinue(h, this, ho, other, i + 1)
           ELSE LET subExpression    == Relation(ho, other, relationName)
                    ownSubExpression == Relation(h, this, relationName)
                IN  IF \/ ownSubExpression.null
                       \/ ~IsSubExpression(h, ownSubExpression, ho, subExpression).ret
                    THEN [ret |-> FALSE, stop |-> i]
                    ELSE IsSubExpressionFromContinue(h, this, ho, other, i + 1)

IsSubExpressionFrom(h, this, ho, other, i) ==
  IF i > Len(other.nodes)
  THEN [ret |-> TRUE, stop |-> 0]
  ELSE LET relationName == ho[other.nodes[i]].name
       IN  IF /\ IsRecursive(ho, other, relationName)
              /\ (IsAllRecursive(h, this) \/ IsRecursive(h, this, relationName))
           THEN [ret |-> TRUE, stop |-> i]
           ELSE LET subExpression    == Relation(ho, other, relationName)
                    ownSubExpression == Relation(h, this, relationName)
                IN  IF \/ ownSubExpression.null
                       \/ ~IsSubExpression(h, ownSubExpression, ho, subExpression).ret
                    THEN [ret |-> FALSE, stop |-> i]
                    ELSE IsSubExpressionFrom(h, this, ho, other, i + 1)

\* A variant of isSubExpression that answers false for an all-recursive argument.
IsSubExpressionStarNever(h, this, ho, other) ==
  IF IsAllRecursive(ho, other)
  THEN [ret |-> FALSE, stop |-> 0]
  ELSE IsSubExpressionFrom(h, this, ho, other, 1)

IsSubExpression(h, this, ho, other) ==
  IF IsAllRecursive(ho, other)
  THEN [ret |-> IsAllRecursive(h, this), stop |-> 0]
  ELSE IsSubExpressionFrom(h, this, ho, other, 1)

(***************************************************************************)
(* Input domains.  A tree is [name, children], a forest a sequence of      *)
(* trees; Render writes a forest in the DSL of the class comment: a.b for  *)
(* an only child, a.[b,c] for several children, [a,b] for several roots.   *)
(***************************************************************************)
TextAlphabet == {"a", ".", ",", "[", "]", " "}

Texts == UNION {[1..n -> TextAlphabet] : n \in 0..MaxLen}

Names == {<<"a">>, <<"b">>, Caret, Star}

PlainNames == {<<"a">>, <<"b">>}

PairNames == {<<"a">>, Caret, Star}

OtherNames == {<<"a">>, Caret}

ChainNames == {<<"p">>, <<"q">>}

TailNames == {<<"d">>}

RECURSIVE ForestsOfSize(_, _)
ForestsOfSize(names, n) ==
  IF n = 0
  THEN {<<>>}
  ELSE UNION {
         {<<[name |-> x, children |-> c]>> \o rest :
            x \in names, c \in ForestsOfSize(names, k - 1),
            rest \in ForestsOfSize(names, n - k)} : k \in 1..n}

Forests(names, n) == UNION {ForestsOfSize(names, k) : k \in 0..n}

RECURSIVE Render(_)
RECURSIVE RenderList(_, _)
RenderTree(t) ==
  IF Len(t.children) = 0 THEN t.name ELSE t.name \o <<".">> \o Render(t.children)

RenderList(f, i) ==
  IF i > Len(f) THEN <<>>
  ELSE IF i = Len(f) THEN RenderTree(f[i])
  ELSE RenderTree(f[i]) \o <<",">> \o RenderList(f, i + 1)

Render(f) ==
  IF Len(f) = 0 THEN <<>>
  ELSE IF Len(f) = 1 THEN RenderTree(f[1])
  ELSE <<"[">> \o RenderList(f, 1) \o <<"]">>

\* sequences of non-empty forests holding n nodes in all
RECURSIVE ElemListsOfSize(_, _)
ElemListsOfSize(names, n) ==
  IF n = 0
  THEN {<<>>}
  ELSE UNION {
         {<<f>> \o rest :
            f \in ForestsOfSize(names, k),
            rest \in ElemListsOfSize(names, n - k)} : k \in 1..n}

Chains == UNION {[1..n -> ChainNames] : n \in 0..MaxChain}

RECURSIVE Join(_, _, _)
Join(strs, sep, i) ==
  IF i > Len(strs) THEN <<>>
  ELSE IF i = Len(strs) THEN strs[i]
  ELSE strs[i] \o <<sep>> \o Join(strs, sep, i + 1)

\* the string p.[e1,...,ek].t of a chain p, elements e1..ek and plain tokens t
ArrayForm(chain, elems, tail) ==
  LET arr == <<"[">> \o Join([i \in 1..Len(elems) |-> Render(elems[i])], ",", 1) \o <<"]">>
  IN  Join(chain \o <<arr>> \o tail, ".", 1)

Origin(kind, forest, chain, elems, tail) ==
  [kind |-> kind, forest |-> forest, chain |-> chain, elems |-> elems, tail |-> tail]

NoCall ==
  [op |-> "none", name |-> <<>>, kind |-> "none", arg |-> NotAString,
   this |-> Null, res |-> Null, ret |-> FALSE, stop |-> 0, threw |-> FALSE]

InitVars ==
  /\ arg = <<>>
  /\ pc = "start"
  /\ heap = <<>>
  /\ expr = Null
  /\ cur = Null
  /\ path = <<>>
  /\ last = NoCall

\* every string of at most MaxLen characters, and a value that is no string
InitText ==
  /\ \E s \in Texts :
       /\ origin = Origin("text", <<>>, <<>>, <<>>, <<>>)
       /\ input \in {Str(s), NotAString}
  /\ InitVars

\* the DSL text of every forest of at most MaxNodes nodes
Init ==
  /\ \E f \in Forests(Names, MaxNodes) :
       /\ origin = Origin("forest", f, <<>>, <<>>, <<>>)
       /\ input = Str(Render(f))
  /\ InitVars

\* the receivers of the isSubExpression(string) calls
InitPair ==
  /\ \E f \in Forests(PairNames, MaxThisNodes) :
       /\ origin = Origin("forest", f, <<>>, <<>>, <<>>)
       /\ input = Str(Render(f))
  /\ \E g \in Forests(OtherNames, MaxOtherNodes) : arg = Render(g)
  /\ pc = "start"
  /\ heap = <<>>
  /\ expr = Null
  /\ cur = Null
  /\ path = <<>>
  /\ last = NoCall

\* p.[e1,...,ek] and p.[e1,...,ek].d
InitArray ==
  /\ \E chain \in Chains, n \in 1..MaxArrayNodes, tail \in {<<>>} \cup {<<d>> : d \in TailNames} :
       \E elems \in ElemListsOfSize(PlainNames, n) :
         /\ origin = Origin("array", <<>>, chain, elems, tail)
         /\ input = Str(ArrayForm(chain, elems, tail))
  /\ InitVars

(***************************************************************************)
(* The calls of a caller.                                                  *)
(***************************************************************************)
CallParse ==
  /\ pc = "start"
  /\ LET r == Parse(input, heap)
     IN  /\ pc' = IF r.ok THEN "parsed" ELSE "failed"
         /\ heap' = IF r.ok THEN r.heap ELSE heap
         /\ expr' = r.expr
         /\ cur' = r.expr
  /\ UNCHANGED <<origin, input, arg, path, last>>

CallRelation(relationName) ==
  /\ pc = "parsed"
  /\ ~cur.null
  /\ Len(path) < MaxCalls
  /\ LET res == Relation(heap, cur, relationName)
     IN  /\ cur' = res
         /\ last' = [NoCall EXCEPT !.op = "relation", !.name = relationName,
                                   !.this = cur, !.res = res]
  /\ path' = Append(path, relationName)
  /\ UNCHANGED <<origin, input, arg, pc, heap, expr>>

CallIsRecursive(relationName) ==
  /\ pc = "parsed"
  /\ ~cur.null
  /\ last' = [NoCall EXCEPT !.op = "isRecursive", !.name = relationName,
                            !.this = cur,
                            !.ret = IsRecursive(heap, cur, relationName)]
  /\ UNCHANGED <<origin, input, arg, pc, heap, expr, cur, path>>

CallIsAllRecursive ==
  /\ pc = "parsed"
  /\ ~cur.null
  /\ last' = [NoCall EXCEPT !.op = "isAllRecursive", !.this = cur,
                            !.ret = IsAllRecursive(heap, cur)]
  /\ UNCHANGED <<origin, input, arg, pc, heap, expr, cur, path>>

\* isSubExpression(expr), expr a string: parsed first, which may throw
CallIsSubExpressionString ==
  /\ pc = "parsed"
  /\ ~cur.null
  /\ LET str == arg
         o == Parse(Str(str), <<>>)
         r == IsSubExpression(heap, cur, o.heap, o.expr)
     IN  last' = [NoCall EXCEPT !.op = "isSubExpression", !.kind = "string",
                                !.arg = Str(str), !.this = cur,
                                !.threw = ~o.ok,
                                !.ret = o.ok /\ r.ret,
                                !.stop = IF o.ok THEN r.stop ELSE 0]
  /\ UNCHANGED <<origin, input, arg, pc, heap, expr, cur, path>>

\* isSubExpression(expr), expr an Expression: here the receiver itself
CallIsSubExpressionSelf ==
  /\ pc = "parsed"
  /\ ~cur.null
  /\ LET r == IsSubExpression(heap, cur, heap, cur)
     IN  last' = [NoCall EXCEPT !.op = "isSubExpression", !.kind = "self",
                                !.this = cur, !.ret = r.ret, !.stop = r.stop]
  /\ UNCHANGED <<origin, input, arg, pc, heap, expr, cur, path>>

NextParse == CallParse

NextPair ==
  \/ CallParse
  \/ CallIsSubExpressionString

Next ==
  \/ CallParse
  \/ \E n \in Names : CallRelation(n)
  \/ \E n \in Names : CallIsRecursive(n)
  \/ CallIsAllRecursive
  \/ CallIsSubExpressionSelf

SpecText == InitText /\ [][NextParse]_vars

SpecArray == InitArray /\ [][NextParse]_vars

SpecPair == InitPair /\ [][NextPair]_vars

Spec == Init /\ [][Next]_vars

(***************************************************************************)
(* Reading a heap back as a forest of [name, children] trees.              *)
(***************************************************************************)
RECURSIVE TreeOf(_, _)
TreeOf(h, id) ==
  [name     |-> h[id].name,
   children |-> [i \in 1..Len(h[id].children) |-> TreeOf(h, h[id].children[i])]]

ForestOf(h, ids) == [i \in 1..Len(ids) |-> TreeOf(h, ids[i])]

\* parse(str) of a string, as a forest; <<>> with ok FALSE when parse throws
ParsedForest(str) ==
  LET r == Parse(Str(str), <<>>)
  IN  [ok |-> r.ok, forest |-> IF r.ok THEN ForestOf(r.heap, r.expr.nodes) ELSE <<>>]

\* Every forest is what parse returns for its text.
RenderParses ==
  (origin.kind = "forest" /\ pc # "start")
    => (pc = "parsed" /\ ForestOf(heap, expr.nodes) = origin.forest)

(***************************************************************************)
(* C3.  parse fails for every non-empty string whose square brackets are   *)
(* unbalanced: some "[" is never closed, or some "]" closes no earlier     *)
(* unmatched "[".                                                          *)
(***************************************************************************)
RECURSIVE DepthAt(_, _)
DepthAt(s, k) ==
  IF k = 0 THEN 0
  ELSE DepthAt(s, k - 1) + (IF s[k] = "[" THEN 1 ELSE IF s[k] = "]" THEN -1 ELSE 0)

\* the brackets of s are balanced: no prefix closes more than it opened,
\* and all opened are closed at the end
Balanced(s) ==
  /\ \A k \in 0..Len(s) : DepthAt(s, k) >= 0
  /\ DepthAt(s, Len(s)) = 0

C3_UnbalancedFails ==
  (pc # "start" /\ input.isString /\ Len(input.chars) > 0 /\ ~Balanced(input.chars))
    => pc = "failed"

(***************************************************************************)
(* C7.  parse returns an Expression without root nodes only for a value    *)
(* that is no string or is the empty string; for a non-empty string it     *)
(* throws or returns at least one root node.                               *)
(***************************************************************************)
C7_EmptyOnlyFromEmpty ==
  pc # "start" =>
    IF input.isString /\ Len(input.chars) > 0
    THEN pc = "failed" \/ (~expr.null /\ Len(expr.nodes) >= 1)
    ELSE pc = "parsed" /\ ~expr.null /\ Len(expr.nodes) = 0

C7_Witness ==
  /\ pc = "failed"
  /\ input = Str(<<"[", " ", "]">>)

(***************************************************************************)
(* The array forms p.[e1,...,ek] and p.[e1,...,ek].d of SpecArray.         *)
(***************************************************************************)
RECURSIVE Concat(_, _)
Concat(forests, i) ==
  IF i > Len(forests) THEN <<>> ELSE forests[i] \o Concat(forests, i + 1)

\* the root nodes of parse(e1), ..., parse(ek), each element parsed alone
ElemRoots(elems) ==
  Concat([i \in 1..Len(elems) |-> ParsedForest(Render(elems[i])).forest], 1)

\* the forest f of a chain of plain tokens, add becoming the children of
\* the node of its last token; add itself when the chain is absent
RECURSIVE Graft(_, _)
Graft(f, add) ==
  IF Len(f) = 0 THEN add
  ELSE <<[name |-> f[1].name, children |-> Graft(f[1].children, add)]>>

\* the children of the node reached from the roots of f by n first-child steps
RECURSIVE ChildrenAt(_, _)
ChildrenAt(f, n) ==
  IF n = 0 THEN f ELSE ChildrenAt(f[1].children, n - 1)

(***************************************************************************)
(* C2.  parse("p.[e1,...,ek]") is the forest of parse(p) in which the node *)
(* of the last token of p has as children exactly the root nodes of        *)
(* parse(e1), ..., parse(ek), in textual order and each with the subtree   *)
(* it has when its element is parsed alone; without p they are the roots.  *)
(***************************************************************************)
C2_ArrayChildren ==
  (origin.kind = "array" /\ origin.tail = <<>> /\ pc # "start") =>
    /\ pc = "parsed"
    /\ ForestOf(heap, expr.nodes) =
         Graft(ParsedForest(Join(origin.chain, ".", 1)).forest, ElemRoots(origin.elems))

C2_Witness ==
  /\ pc = "parsed"
  /\ origin.kind = "array"
  /\ origin.tail = <<>>
  /\ Len(origin.chain) >= 1
  /\ Len(origin.elems) >= 2
  /\ \E i \in 1..Len(origin.elems) : Len(origin.elems[i]) >= 2
  /\ Len(ChildrenAt(ForestOf(heap, expr.nodes), Len(origin.chain))) >= 3

(***************************************************************************)
(* C8.  A plain token that follows an array token (d in "a.[b,c].d")       *)
(* becomes a child of the nodes the array token produced, and is not a     *)
(* further child of the array's parent.                                    *)
(***************************************************************************)
C8_TailUnderArrayNodes ==
  (origin.kind = "array" /\ origin.tail # <<>> /\ pc = "parsed") =>
    LET siblings == ChildrenAt(ForestOf(heap, expr.nodes), Len(origin.chain))
        produced == ElemRoots(origin.elems)
    IN  /\ Len(siblings) = Len(produced)
        /\ \A i \in 1..Len(siblings) :
             /\ siblings[i].name = produced[i].name
             /\ \E j \in 1..Len(siblings[i].children) :
                  siblings[i].children[j].name = origin.tail[1]

(***************************************************************************)
(* The root nodes of an expression that carry a name, by index.            *)
(***************************************************************************)
RootsNamed(h, e, n) == {i \in 1..Len(e.nodes) : h[e.nodes[i]].name = n}

Min(S) == CHOOSE x \in S : \A y \in S : x <= y

\* the first root node of e named n (RootsNamed(h, e, n) not empty)
FirstNamed(h, e, n) == h[e.nodes[Min(RootsNamed(h, e, n))]]

\* a node has exactly one child, and it is named "^"
OnlyChildIsCaret(h, node) ==
  Len(node.children) = 1 /\ h[node.children[1]].name = Caret

(***************************************************************************)
(* C4.  E.isSubExpression(E) returns true for every expression E, with     *)
(* "*" or "^" nodes, repeated sibling names or no node at all.             *)
(***************************************************************************)
C4_Reflexive ==
  (last.op = "isSubExpression" /\ last.kind = "self") => last.ret

C4_Witness ==
  /\ last.op = "isSubExpression"
  /\ last.kind = "self"
  /\ Len(last.this.nodes) = 2
  /\ Cardinality(RootsNamed(heap, last.this, <<"a">>)) = 2
  /\ \E i \in 1..2 : OnlyChildIsCaret(heap, heap[last.this.nodes[i]])

(***************************************************************************)
(* C5, as claimed.  relation(name) returns null when no root node is named *)
(* name, and an Expression without nodes when the matched root node has no *)
(* children; the two values differ.                                        *)
(***************************************************************************)
C5_NullOrEmpty ==
  last.op = "relation" =>
    LET named == RootsNamed(heap, last.this, last.name)
    IN  /\ named = {} => last.res = Null
        /\ (named # {} /\ Len(FirstNamed(heap, last.this, last.name).children) = 0)
             => last.res = Expression(<<>>)
        /\ Null # Expression(<<>>)

(***************************************************************************)
(* C5, amended.  The same for a receiver that is not all-recursive; an     *)
(* all-recursive receiver returns itself for every name.                   *)
(***************************************************************************)
C5_NullOrEmptyUnlessStar ==
  last.op = "relation" =>
    LET named == RootsNamed(heap, last.this, last.name)
    IN  IF IsAllRecursive(heap, last.this)
        THEN last.res = last.this
        ELSE /\ named = {} => last.res = Null
             /\ (named # {} /\ Len(FirstNamed(heap, last.this, last.name).children) = 0)
                  => last.res = Expression(<<>>)
             /\ Null # Expression(<<>>)

C5_Witness ==
  /\ last.op = "relation"
  /\ ~IsAllRecursive(heap, last.this)
  /\ Cardinality(RootsNamed(heap, last.this, last.name)) = 2
  /\ Len(FirstNamed(heap, last.this, last.name).children) = 0
  /\ last.res = Expression(<<>>)

(***************************************************************************)
(* C6, as claimed.  isRecursive(n) is true iff some root node named n has  *)
(* exactly one child, named "^", also when several roots are named n.      *)
(***************************************************************************)
C6_SomeRootRecursive ==
  last.op = "isRecursive" =>
    last.ret = (\E i \in RootsNamed(heap, last.this, last.name) :
                  OnlyChildIsCaret(heap, heap[last.this.nodes[i]]))

(***************************************************************************)
(* C6, amended.  isRecursive(n) is true iff a root node is named n and the *)
(* first such root node has exactly one child, named "^".                  *)
(***************************************************************************)
C6_FirstRootRecursive ==
  last.op = "isRecursive" =>
    last.ret = (/\ RootsNamed(heap, last.this, last.name) # {}
                /\ OnlyChildIsCaret(heap, FirstNamed(heap, last.this, last.name)))

C6_Witness ==
  /\ last.op = "isRecursive"
  /\ last.ret
  /\ Cardinality(RootsNamed(heap, last.this, last.name)) = 2

(***************************************************************************)
(* C10.  If E = parse(X) is recursive at n, then after k >= 1 successive   *)
(* relation(n) calls from E the result is not null, has exactly one root   *)
(* node, the node matched in E itself, and is recursive at n; the nodes of *)
(* E are as parse left them.                                               *)
(***************************************************************************)
C10_RecursionPreserved ==
  (pc = "parsed" /\ Len(path) >= 1 /\ (\A i \in 1..Len(path) : path[i] = path[1])
     /\ IsRecursive(heap, expr, path[1])) =>
    /\ ~cur.null
    /\ Len(cur.nodes) = 1
    /\ cur.nodes[1] = expr.nodes[Min(RootsNamed(heap, expr, path[1]))]
    /\ IsRecursive(heap, cur, path[1])
    /\ heap = Parse(input, <<>>).heap
    /\ expr = Parse(input, <<>>).expr

C10_Witness ==
  /\ pc = "parsed"
  /\ Len(path) = 2
  /\ path[1] = <<"a">>
  /\ path[2] = <<"a">>
  /\ IsRecursive(heap, expr, <<"a">>)
  /\ Len(expr.nodes) = 2
  /\ cur.nodes = <<expr.nodes[2]>>

(***************************************************************************)
(* Paths of a forest: the name sequences from a root node to a leaf, and   *)
(* whether a name sequence is a path of the forest from a root node on.    *)
(***************************************************************************)
RECURSIVE LeafPaths(_)
LeafPaths(f) ==
  UNION {IF Len(f[i].children) = 0
         THEN {<<f[i].name>>}
         ELSE {<<f[i].name>> \o q : q \in LeafPaths(f[i].children)} : i \in 1..Len(f)}

RECURSIVE HasPath(_, _)
HasPath(f, q) ==
  \E i \in 1..Len(f) :
    /\ f[i].name = q[1]
    /\ (Len(q) = 1 \/ HasPath(f[i].children, Tail(q)))

RECURSIVE NoMarkers(_)
NoMarkers(f) ==
  \A i \in 1..Len(f) :
    /\ \A k \in 1..Len(f[i].name) : f[i].name[k] \notin {"*", "^"}
    /\ NoMarkers(f[i].children)

(***************************************************************************)
(* C1.  For expressions A and B without "*" and "^" in their names,        *)
(* A.isSubExpression(B) is true exactly when every path from a root node   *)
(* to a leaf of B is a path of A from a root node of A on.                 *)
(***************************************************************************)
C1_PathContainment ==
  (last.op = "isSubExpression" /\ last.kind = "string" /\ ~last.threw) =>
    LET A == ForestOf(heap, last.this.nodes)
        B == ParsedForest(last.arg.chars).forest
    IN  (NoMarkers(A) /\ NoMarkers(B)) =>
          last.ret = (\A q \in LeafPaths(B) : HasPath(A, q))

(***************************************************************************)
(* C9.  For an argument that is not all-recursive, isSubExpression goes    *)
(* through the roots of the argument in order and the first root that      *)
(* decides fixes the result: a root whose name is recursive in the         *)
(* argument, the receiver being all-recursive or recursive at that name,   *)
(* decides true; any other root whose sub-relation is absent from the      *)
(* receiver or not contained in the receiver's decides false; no later     *)
(* root is examined; the result is true when no root decides.              *)
(***************************************************************************)
Decision(h, this, ho, that, i) ==
  LET n == ho[that.nodes[i]].name
  IN  IF /\ IsRecursive(ho, that, n)
         /\ (IsAllRecursive(h, this) \/ IsRecursive(h, this, n))
      THEN "true"
      ELSE IF \/ Relation(h, this, n).null
              \/ ~IsSubExpression(h, Relation(h, this, n), ho, Relation(ho, that, n)).ret
      THEN "false"
      ELSE "none"

====
